---- MODULE Spec2Model ----
(***************************************************************************)
(* Model of the Harbor adapter: the HarborAPI upstream client              *)
(* (harbor/dex_proxy/harbor_api.py) and the Harbor bridge with its         *)
(* start/stop lifecycle and endpoint handlers (harbor/dex_proxy/harbor.py).*)
(*                                                                         *)
(* Python values are tagged records: None is [none |-> TRUE], a str is     *)
(* [str |-> <<chunk, ...>>] (a sequence of non-empty chunks, "/" and each  *)
(* digit always being a chunk of its own), an int is [int |-> n], a dict   *)
(* is [dict |-> f] with f a function from keys to values, a list is        *)
(* [list |-> <<...>>].                                                     *)
(***************************************************************************)
EXTENDS Integers, Sequences, FiniteSets, TLC

VARIABLES cfg, session, api, sessions, from_addresses, started, pc, last

vars == <<cfg, session, api, sessions, from_addresses, started, pc, last>>

(* ---------------------------------------------------------------- bounds *)
MaxSessions == 2
\* Most separators tried in front of, or behind, a URL segment.
MaxSlashes == 2

(* --------------------------------------------------------- Python values *)
NoneV == [none |-> TRUE]
Str(s) == [str |-> s]
IntV(n) == [int |-> n]
Dict(f) == [dict |-> f]
ListV(s) == [list |-> s]
EmptyMap == [k \in {} |-> NoneV]

IsNone(v) == "none" \in DOMAIN v
IsStr(v) == "str" \in DOMAIN v
IsDict(v) == "dict" \in DOMAIN v

\* Python truthiness of None, str, int and dict values.
Truthy(v) ==
    IF IsNone(v) THEN FALSE
    ELSE IF IsStr(v) THEN Len(v.str) > 0
    ELSE IF "int" \in DOMAIN v THEN v.int # 0
    ELSE IF IsDict(v) THEN DOMAIN v.dict # {}
    ELSE Len(v.list) > 0

\* a or b
PyOr(a, b) == IF Truthy(a) THEN a ELSE b

\* d.get(k) on a dict given as a function.
Get(d, k) == IF k \in DOMAIN d THEN d[k] ELSE NoneV

RECURSIVE lstrip(_)
lstrip(s) == IF Len(s) > 0 /\ Head(s) = "/" THEN lstrip(Tail(s)) ELSE s

RECURSIVE rstrip(_)
rstrip(s) ==
    IF Len(s) > 0 /\ s[Len(s)] = "/" THEN rstrip(SubSeq(s, 1, Len(s) - 1)) ELSE s

strip(s) == lstrip(rstrip(s))

Digits == [c \in {"0", "1", "2", "3", "4", "5", "6", "7", "8", "9"} |->
              CASE c = "0" -> 0 [] c = "1" -> 1 [] c = "2" -> 2 [] c = "3" -> 3
                [] c = "4" -> 4 [] c = "5" -> 5 [] c = "6" -> 6 [] c = "7" -> 7
                [] c = "8" -> 8 [] c = "9" -> 9]

RECURSIVE DigitsValue(_)
DigitsValue(s) ==
    IF Len(s) = 0 THEN 0
    ELSE 10 * DigitsValue(SubSeq(s, 1, Len(s) - 1)) + Digits[s[Len(s)]]

\* int(v) for a str v: the decimal value, or ValueError.
PyInt(v) ==
    IF Len(v.str) > 0 /\ \A i \in 1..Len(v.str) : v.str[i] \in DOMAIN Digits
    THEN [ok |-> TRUE, value |-> IntV(DigitsValue(v.str))]
    ELSE [ok |-> FALSE, value |-> NoneV]

(* ------------------------------------------------------ upstream outcomes *)
\* What the network does with one request: a transport failure (an
\* exception raised by session.request) or an HTTP response.
ClientErrors == {"ClientConnectorError", "ServerDisconnectedError"}
TransportFailures == ClientErrors \cup {"TimeoutError"}

Statuses == {200, 399, 400}
ContentTypes == {<<>>, <<"application/json", "; charset=utf-8">>, <<"text/html">>}
Bodies == {<<>>,
           <<"{", "message", ":", "boom", "}">>,
           <<"[", "]">>,
           <<"null">>,
           <<"<html>">>}

Transport(e) == [kind |-> "transport", exc |-> e, status |-> 0,
                 ctype |-> <<>>, body |-> <<>>]
Response(s, ct, b) == [kind |-> "response", exc |-> "", status |-> s,
                       ctype |-> ct, body |-> b]
NoUpstream == [kind |-> "none", exc |-> "", status |-> 0,
               ctype |-> <<>>, body |-> <<>>]

Upstreams ==
    {Transport(e) : e \in TransportFailures}
    \cup {Response(s, ct, b) : s \in Statuses, ct \in ContentTypes, b \in Bodies}

\* json.loads on a token sequence: objects with at most one member, the
\* empty list, null and bare strings; anything else is a JSONDecodeError.
Scalars == {"boom", "message"}
json_loads(text) ==
    IF text = <<"{", "}">> THEN [ok |-> TRUE, value |-> Dict(EmptyMap)]
    ELSE IF Len(text) = 5 /\ text[1] = "{" /\ text[2] \in Scalars /\ text[3] = ":"
            /\ text[4] \in Scalars /\ text[5] = "}"
         THEN [ok |-> TRUE, value |-> Dict(text[2] :> Str(<<text[4]>>))]
    ELSE IF text = <<"[", "]">> THEN [ok |-> TRUE, value |-> ListV(<<>>)]
    ELSE IF text = <<"null">> THEN [ok |-> TRUE, value |-> NoneV]
    ELSE IF Len(text) = 1 /\ text[1] \in Scalars
         THEN [ok |-> TRUE, value |-> Str(text)]
    ELSE [ok |-> FALSE, value |-> NoneV]

(* ----------------------------------------------------------- HarborAPIError *)
\* Outcome of a client call: a returned value, a HarborAPIError, or any
\* other exception.  call is the request handed to the session (NoCall when
\* none was made) and issued the number of requests put on the network.
NoCall == [base |-> "none"]

Returned(v, call) ==
    [kind |-> "return", value |-> v, status |-> 0, message |-> <<>>,
     payload |-> NoneV, exc |-> "", call |-> call,
     issued |-> IF call = NoCall THEN 0 ELSE 1]

HarborAPIError(message, status, payload, call) ==
    [kind |-> "HarborAPIError", value |-> NoneV, status |-> status,
     message |-> message, payload |-> payload, exc |-> "HarborAPIError",
     call |-> call, issued |-> IF call = NoCall THEN 0 ELSE 1]

Raised(exc, message, call) ==
    [kind |-> "raise", value |-> NoneV, status |-> 0, message |-> message,
     payload |-> NoneV, exc |-> exc, call |-> call,
     issued |-> IF call = NoCall THEN 0 ELSE 1]

to_response(err) ==
    IF err.payload # NoneV
    THEN Dict("error" :> Dict(("message" :> Str(err.message))
                              @@ ("payload" :> err.payload)))
    ELSE Dict("error" :> Dict("message" :> Str(err.message)))

(* ---------------------------------------------------------------- HarborAPI *)
\* HarborAPI.__init__: the client keeps the session and the stripped bases.
HarborAPI(sess, rest_base, rest_api_path, api_key, xnode_base, xnode_api_path) ==
    [session |-> sess,
     rest_base |-> Str(rstrip(rest_base.str)),
     rest_api_path |-> Str(rstrip(rest_api_path.str)),
     api_key |-> api_key,
     xnode_base |-> IF Truthy(xnode_base) THEN Str(rstrip(xnode_base.str)) ELSE NoneV,
     xnode_api_path |-> IF Truthy(xnode_api_path)
                        THEN Str(rstrip(xnode_api_path.str)) ELSE Str(<<>>)]

RECURSIVE Join(_)
Join(parts) ==
    IF Len(parts) = 0 THEN <<>>
    ELSE IF Len(parts) = 1 THEN parts[1]
    ELSE parts[1] \o <<"/">> \o Join(Tail(parts))

\* Mutant: the parts are joined as they come, without trimming separators.
_compose_url_untrimmed(base, api_path, path) ==
    Join(SelectSeq(<<base>> \o (IF Len(api_path) > 0 THEN <<api_path>> ELSE <<>>)
                   \o <<path>>,
                   LAMBDA part : Len(part) > 0))

\* HarborAPI._compose_url(base, api_path, path), all three chunk sequences.
_compose_url(base, api_path, path) ==
    LET parts == <<base>>
                 \o (IF Len(api_path) > 0 THEN <<lstrip(api_path)>> ELSE <<>>)
                 \o <<lstrip(path)>>
        kept == SelectSeq(parts, LAMBDA part : Len(part) > 0)
    IN  Join([i \in 1..Len(kept) |-> strip(kept[i])])

HasJsonContentType(content_type) ==
    \E i \in 1..Len(content_type) : content_type[i] = "application/json"

\* Mutant: a result that is not an object is returned as it is.
CheckedResponse_unwrapped(status, data, call) ==
    IF status >= 400
    THEN HarborAPIError(<<"Harbor request failed with status ", ToString(status)>>,
                        status, data, call)
    ELSE Returned(data, call)

\* HarborAPI._send_request from the status check on: data is the parsed or
\* raw body.
CheckedResponse(status, data, call) ==
    IF status >= 400
    THEN HarborAPIError(<<"Harbor request failed with status ", ToString(status)>>,
                        status, data, call)
    ELSE IF ~IsDict(data) THEN Returned(Dict("result" :> data), call)
    ELSE Returned(data, call)

\* data = json.loads(raw_text): a JSONDecodeError leaves _send_request.
ParsedResponse(status, parsed, call) ==
    IF ~parsed.ok THEN Raised("JSONDecodeError", <<"Expecting value">>, call)
    ELSE CheckedResponse(status, parsed.value, call)

\* HarborAPI._send_request: open says whether the client's session is open
\* (a request on a closed session raises RuntimeError before any I/O).
_send_request(open, call, up) ==
    IF ~open THEN Raised("RuntimeError", <<"Session is closed">>, NoCall)
    ELSE IF up.kind = "transport"
    THEN IF up.exc \in ClientErrors
         THEN HarborAPIError(<<"Network error: ", up.exc>>, 503, NoneV, call)
         ELSE Raised(up.exc, <<up.exc>>, call)
    ELSE IF HasJsonContentType(up.ctype)
    THEN IF Len(up.body) > 0
         THEN ParsedResponse(up.status, json_loads(up.body), call)
         ELSE CheckedResponse(up.status, Dict(EmptyMap), call)
    ELSE CheckedResponse(up.status, Str(up.body), call)

WithSlash(path) == IF Len(path) > 0 /\ Head(path) = "/" THEN path ELSE <<"/">> \o path

\* HarborAPI._request: a call on the primary (REST) base.
_request(a, open, method, path, params, json_payload, up) ==
    LET url == _compose_url(a.rest_base.str, a.rest_api_path.str, WithSlash(path))
        accept == "accept" :> Str(<<"application/json">>)
        headers == IF Truthy(a.api_key)
                   THEN accept @@ ("X-API-KEY" :> a.api_key) ELSE accept
    IN  _send_request(open,
            [base |-> "rest", method |-> method, url |-> url, headers |-> headers,
             params |-> params, json |-> json_payload, session |-> a.session], up)

\* Mutant: the missing-base check is gone and the call goes to the primary base.
_request_xnode_unguarded(a, open, method, path, params, json_payload, up) ==
    _request(a, open, method, path, params, json_payload, up)

\* Mutant: the xnode call carries the API key as well.
_request_xnode_with_key(a, open, method, path, params, json_payload, up) ==
    IF a.xnode_base = NoneV
    THEN HarborAPIError(<<"xnode base URL is not configured">>, 500, NoneV, NoCall)
    ELSE _send_request(open,
             [base |-> "xnode", method |-> method,
              url |-> _compose_url(a.xnode_base.str, a.xnode_api_path.str,
                                   WithSlash(path)),
              headers |-> IF Truthy(a.api_key)
                          THEN ("accept" :> Str(<<"application/json">>))
                               @@ ("X-API-KEY" :> a.api_key)
                          ELSE "accept" :> Str(<<"application/json">>),
              params |-> params, json |-> json_payload, session |-> a.session], up)

\* HarborAPI._request_xnode: a call on the secondary (xnode) base.
_request_xnode(a, open, method, path, params, json_payload, up) ==
    IF a.xnode_base = NoneV
    THEN HarborAPIError(<<"xnode base URL is not configured">>, 500, NoneV, NoCall)
    ELSE LET url == _compose_url(a.xnode_base.str, a.xnode_api_path.str, WithSlash(path))
             headers == "accept" :> Str(<<"application/json">>)
         IN  _send_request(open,
                 [base |-> "xnode", method |-> method, url |-> url,
                  headers |-> headers, params |-> params, json |-> json_payload,
                  session |-> a.session], up)

get_markets(a, open, up) ==
    _request(a, open, "GET", <<"/", "markets">>, NoneV, NoneV, up)
get_account(a, open, up) ==
    _request(a, open, "GET", <<"/", "account">>, NoneV, NoneV, up)
get_depth(a, open, symbol, depth, up) ==
    _request(a, open, "POST", <<"/", "depth", "/">> \o symbol.str,
             IF depth # NoneV THEN Dict("depth" :> depth) ELSE NoneV, NoneV, up)
create_order(a, open, payload, up) ==
    _request(a, open, "POST", <<"/", "order">>, NoneV, Dict(payload), up)
update_order(a, open, payload, up) ==
    _request(a, open, "PUT", <<"/", "order">>, NoneV, Dict(payload), up)
cancel_order(a, open, query, up) ==
    _request(a, open, "DELETE", <<"/", "order">>, Dict(query), NoneV, up)
get_order(a, open, query, up) ==
    _request(a, open, "GET", <<"/", "order">>, Dict(query), NoneV, up)
get_orders(a, open, query, up) ==
    _request(a, open, "GET", <<"/", "orders">>, Dict(query), NoneV, up)
withdraw(a, open, payload, up) ==
    _request(a, open, "POST", <<"/", "withdraw">>, NoneV, Dict(payload), up)
get_withdraw(a, open, withdraw_id, up) ==
    _request(a, open, "GET", <<"/", "withdraw", "/">> \o withdraw_id.str,
             NoneV, NoneV, up)
get_inbound_addresses(a, open, up) ==
    _request_xnode(a, open, "GET", <<"/", "inbound_addresses">>, NoneV, NoneV, up)
get_outbound_fees(a, open, up) ==
    _request_xnode(a, open, "GET", <<"/", "outbound_fees">>, NoneV, NoneV, up)
get_tx_details(a, open, tx_id, up) ==
    _request_xnode(a, open, "GET", <<"/", "tx", "/", "details", "/">> \o tx_id.str,
                   NoneV, NoneV, up)

\* getattr(api, method)(*args)
ApiMethod(a, open, method, args, up) ==
    CASE method = "get_markets" -> get_markets(a, open, up)
      [] method = "get_account" -> get_account(a, open, up)
      [] method = "get_depth" -> get_depth(a, open, args[1], args[2], up)
      [] method = "create_order" -> create_order(a, open, args[1], up)
      [] method = "update_order" -> update_order(a, open, args[1], up)
      [] method = "cancel_order" -> cancel_order(a, open, args[1], up)
      [] method = "get_order" -> get_order(a, open, args[1], up)
      [] method = "get_orders" -> get_orders(a, open, args[1], up)
      [] method = "withdraw" -> withdraw(a, open, args[1], up)
      [] method = "get_withdraw" -> get_withdraw(a, open, args[1], up)
      [] method = "get_inbound_addresses" -> get_inbound_addresses(a, open, up)
      [] method = "get_outbound_fees" -> get_outbound_fees(a, open, up)
      [] method = "get_tx_details" -> get_tx_details(a, open, args[1], up)

(* ------------------------------------------------------------------- Harbor *)
\* What a handler hands back to the web server: a (status, body) pair, or an
\* exception that leaves the handler (raised # "").
Reply(status, body) == [raised |-> "", status |-> status, body |-> body]
Escapes(exc) == [raised |-> exc, status |-> 0, body |-> NoneV]

\* A handler run: its reply, the number of requests it put on the network
\* and the last request it handed to the session.
Run(out, issued, call) == [out |-> out, issued |-> issued, call |-> call]

_bad_request(message) ==
    Reply(400, Dict("error" :> Dict("message" :> Str(message))))

\* Mutant: a missing client is reported as an internal error.
_api_not_ready_500 ==
    Reply(500, Dict("error" :> Dict("message" :>
                        Str(<<"Harbor API client not initialised">>))))

_api_not_ready ==
    Reply(503, Dict("error" :> Dict("message" :>
                        Str(<<"Harbor API client not initialised">>))))

\* The try/except of Harbor._execute_api_call around `await func(*args)`,
\* whose outcome is r.
Outcome(r) ==
    IF r.kind = "return" THEN Run(Reply(200, r.value), r.issued, r.call)
    ELSE IF r.kind = "HarborAPIError"
    THEN Run(Reply(r.status, to_response(r)), r.issued, r.call)
    ELSE Run(Reply(500, Dict("error" :> Dict("message" :> Str(r.message)))),
             r.issued, r.call)

\* Harbor._execute_api_call(method, *args) with success_status = 200; a is
\* self._api and open tells whether the session that client holds is open.
_execute_api_call(a, open, method, args, up) ==
    IF a = NoneV THEN Run(_api_not_ready, 0, NoCall)
    ELSE Outcome(ApiMethod(a, open, method, args, up))

_get_markets(a, open, params, up) ==
    _execute_api_call(a, open, "get_markets", <<>>, up)

_get_depth(a, open, params, up) ==
    LET symbol == Get(params, "symbol")
        depth_param == Get(params, "depth")
    IN  IF ~Truthy(symbol)
        THEN Run(_bad_request(<<"Missing \"symbol\" query parameter">>), 0, NoCall)
        ELSE IF depth_param # NoneV /\ ~PyInt(depth_param).ok
        THEN Run(Escapes("ValueError"), 0, NoCall)
        ELSE _execute_api_call(a, open, "get_depth",
                 <<symbol, IF depth_param # NoneV THEN PyInt(depth_param).value
                           ELSE NoneV>>, up)

_get_account(a, open, params, up) ==
    _execute_api_call(a, open, "get_account", <<>>, up)

\* Mutant: the payload check is left out.
_create_order_unchecked(a, open, params, up) ==
    _execute_api_call(a, open, "create_order", <<params>>, up)

_create_order(a, open, params, up) ==
    IF ~Truthy(Dict(params))
    THEN Run(_bad_request(<<"Order payload is required">>), 0, NoCall)
    ELSE _execute_api_call(a, open, "create_order", <<params>>, up)

_update_order(a, open, params, up) ==
    IF ~Truthy(Dict(params))
    THEN Run(_bad_request(<<"Update payload is required">>), 0, NoCall)
    ELSE _execute_api_call(a, open, "update_order", <<params>>, up)

_cancel_order(a, open, params, up) ==
    IF ~Truthy(Dict(params))
    THEN Run(_bad_request(<<"Query parameters are required to cancel an order">>),
             0, NoCall)
    ELSE _execute_api_call(a, open, "cancel_order", <<params>>, up)

_get_order(a, open, params, up) ==
    IF ~Truthy(Dict(params))
    THEN Run(_bad_request(<<"Order query parameters are required">>), 0, NoCall)
    ELSE _execute_api_call(a, open, "get_order", <<params>>, up)

_get_orders(a, open, params, up) ==
    _execute_api_call(a, open, "get_orders", <<params>>, up)

\* sorted(required_keys)
SortedWithdrawKeys == <<"amount", "asset", "destination", "gasAmount", "gasAsset">>

RECURSIVE JoinComma(_)
JoinComma(names) ==
    IF Len(names) = 0 THEN <<>>
    ELSE IF Len(names) = 1 THEN <<names[1]>>
    ELSE <<names[1], ", ">> \o JoinComma(Tail(names))

_withdraw(a, open, params, up) ==
    LET required_keys == {SortedWithdrawKeys[i] : i \in 1..Len(SortedWithdrawKeys)}
        missing == required_keys \ DOMAIN params
    IN  IF missing # {}
        THEN Run(_bad_request(<<"Missing required withdraw fields: ">>
                     \o JoinComma(SelectSeq(SortedWithdrawKeys,
                                            LAMBDA k : k \in missing))), 0, NoCall)
        ELSE _execute_api_call(a, open, "withdraw", <<params>>, up)

_get_withdraw(a, open, params, up) ==
    LET withdraw_id == PyOr(Get(params, "withdrawId"), Get(params, "withdraw_id"))
    IN  IF ~Truthy(withdraw_id)
        THEN Run(_bad_request(<<"withdrawId query parameter is required">>), 0, NoCall)
        ELSE _execute_api_call(a, open, "get_withdraw", <<withdraw_id>>, up)

_get_inbound_addresses(a, open, params, up) ==
    _execute_api_call(a, open, "get_inbound_addresses", <<>>, up)

_get_outbound_fees(a, open, params, up) ==
    _execute_api_call(a, open, "get_outbound_fees", <<>>, up)

_get_tx_details(a, open, params, up) ==
    LET tx_id == PyOr(Get(params, "txId"), Get(params, "tx_id"))
    IN  IF ~Truthy(tx_id)
        THEN Run(_bad_request(<<"txId query parameter is required">>), 0, NoCall)
        ELSE _execute_api_call(a, open, "get_tx_details", <<tx_id>>, up)

\* The DexCommon capabilities Harbor overrides.  Their arguments (request,
\* gas price, nonce, transaction hash) are not looked at.  A raise carries
\* the exception's message, a plain return the value returned.
RaisesNotImplemented(message) ==
    [raised |-> "NotImplementedError", status |-> 0, body |-> NoneV,
     message |-> message]
ReturnsValue(v) == [raised |-> "", status |-> 0, body |-> NoneV, value |-> v]

\* Mutant: token approval does nothing and returns None.
_approve_silent == ReturnsValue(NoneV)

_approve ==
    RaisesNotImplemented(<<"Token approvals", " are not supported for Harbor integration">>)
_transfer ==
    RaisesNotImplemented(<<"Transfers through DexCommon",
                           " are not supported for Harbor integration">>)
_amend_transaction ==
    RaisesNotImplemented(<<"Transaction amendments",
                           " are not supported for Harbor integration">>)
_cancel_transaction ==
    RaisesNotImplemented(<<"Transaction cancellation",
                           " is not supported for Harbor integration">>)
get_transaction_receipt == ReturnsValue(NoneV)
_get_gas_price == ReturnsValue(NoneV)
_get_all_open_requests == Reply(200, ListV(<<>>))
_cancel_all == Reply(200, Dict("result" :> ListV(<<>>)))

\* Mutant: every entry of the from-address table is passed on, empty or not.
NonEmptyEntries_unfiltered(d) == d

\* {k: v for k, v in self._from_addresses.items() if v}
NonEmptyEntries(d) ==
    LET keep == {k \in DOMAIN d : Truthy(d[k])} IN [k \in keep |-> d[k]]

\* Harbor._get_deposit_instructions after the sub-call returned
\* inbound_result.
DepositInstructions(inbound_result, from_addrs, websocket_url) ==
    IF inbound_result.out.status # 200 THEN inbound_result
    ELSE Run(Reply(200,
                 Dict(("inbound" :> inbound_result.out.body)
                      @@ ("fromAddresses" :> Dict(NonEmptyEntries(from_addrs)))
                      @@ (IF Truthy(websocket_url)
                          THEN "websocketUrl" :> websocket_url ELSE EmptyMap))),
             inbound_result.issued, inbound_result.call)

_get_deposit_instructions(a, open, params, up, from_addrs, websocket_url) ==
    DepositInstructions(
        _execute_api_call(a, open, "get_inbound_addresses", <<>>, up),
        from_addrs, websocket_url)

(* ------------------------------------------------------------ configuration *)
\* config['connectors']['harbor'] together with the environment variables
\* the adapter falls back to (HARBOR_API_KEY, ETH_FROM_ADDR, BTC_FROM_ADDR).
Configs ==
    [rest_base : {Str(<<"http:", "/", "/", "h", "/">>)},
     rest_api_path : {Str(<<"/", "api", "/", "v1">>)},
     xnode_base : {NoneV, Str(<<"http:", "/", "/", "x">>)},
     xnode_api_path : {Str(<<"/", "xnode">>)},
     websocket_url : {NoneV, Str(<<"ws:", "/", "/", "h">>)},
     configured_api_key : {NoneV, Str(<<"secret-key">>)},
     env_api_key : {NoneV, Str(<<"env-key">>)},
     configured_from_addresses : {("ETH" :> Str(<<"0xE">>)) @@ ("BTC" :> NoneV)},
     env_eth_from_addr : {NoneV},
     env_btc_from_addr : {NoneV}]

(* ------------------------------------------------------------------ inputs *)
DictsOver(keys, vals) == UNION {[K -> vals] : K \in SUBSET keys}

NoParams == {EmptyMap}
DepthParams ==
    {s @@ d : s \in DictsOver({"symbol"}, {Str(<<>>), Str(<<"BTCUSD">>)}),
              d \in DictsOver({"depth"}, {Str(<<"5", "0">>), Str(<<"deep">>)})}
OrderParams == DictsOver({"orderId"}, {Str(<<"7">>)})
WithdrawParams ==
    {p \in DictsOver({"destination", "asset", "amount", "gasAsset", "gasAmount"},
                     {Str(<<"1">>)}) : Cardinality(DOMAIN p) \in {0, 4, 5}}
WithdrawIdParams ==
    DictsOver({"withdrawId", "withdraw_id"}, {Str(<<>>), Str(<<"w", "1">>)})
TxIdParams == DictsOver({"txId", "tx_id"}, {Str(<<>>), Str(<<"t", "1">>)})

(* ------------------------------------------------------------------- state *)
\* session: 0 for None, else the index in sessions of self._session.
\* sessions: every aiohttp.ClientSession the adapter has opened, "open" or
\* "closed".  api: self._api (NoneV or a HarborAPI record).
\* pc: "idle", or the await at which a running start/stop is suspended.
\* last: the handler run whose reply the web server has not yet sent
\* (handler, input, the self._api it found and whether that client's session
\* was open, upstream outcome consumed, reply, requests issued, request handed
\* to the session); NoRun when no reply is pending.
NoRun == [h |-> "", params |-> EmptyMap, api |-> NoneV, open |-> FALSE,
          up |-> NoUpstream, out |-> Reply(0, NoneV), issued |-> 0,
          call |-> NoCall]

Init ==
    /\ cfg \in Configs
    /\ session = 0
    /\ api = NoneV
    /\ sessions = <<>>
    /\ from_addresses = EmptyMap
    /\ started = FALSE
    /\ pc = "idle"
    /\ last = NoRun

IsOpen(s) == s # 0 /\ sessions[s] = "open"
ApiOpen == api # NoneV /\ IsOpen(api.session)

\* Mutant: closing leaves the session open.
Close_noop(ss, s) == ss

\* await session.close()
Close(ss, s) == [ss EXCEPT ![s] = "closed"]

(* --------------------------------------------------------------- lifecycle *)
\* Harbor.start from the line after `await self._api.close()` to the end.
StartTail ==
    LET ss == IF IsOpen(session) THEN Close(sessions, session) ELSE sessions
        new == Len(ss) + 1
        api_key == PyOr(cfg.configured_api_key, cfg.env_api_key)
    IN  /\ sessions' = Append(ss, "open")
        /\ session' = new
        /\ api' = HarborAPI(new, cfg.rest_base, cfg.rest_api_path, api_key,
                            cfg.xnode_base, cfg.xnode_api_path)
        /\ from_addresses' =
               ("ETH" :> PyOr(cfg.configured_from_addresses["ETH"],
                              cfg.env_eth_from_addr))
               @@ ("BTC" :> PyOr(cfg.configured_from_addresses["BTC"],
                                 cfg.env_btc_from_addr))
        /\ started' = TRUE
        /\ pc' = "idle"

\* Harbor.start up to its first suspension inside self._api.close(); with
\* no client, or one whose session is already closed, it runs to the end.
Start ==
    /\ pc = "idle"
    /\ Len(sessions) < MaxSessions
    /\ IF ApiOpen
       THEN /\ sessions' = Close(sessions, api.session)
            /\ pc' = "start_175"
            /\ UNCHANGED <<session, api, from_addresses, started>>
       ELSE StartTail
    /\ UNCHANGED <<cfg, last>>

StartResume ==
    /\ pc = "start_175"
    /\ StartTail
    /\ UNCHANGED <<cfg, last>>

\* Mutant: stop forgets to clear self._session.
StopTail_keeps_session ==
    /\ api' = NoneV
    /\ sessions' = IF IsOpen(session) THEN Close(sessions, session) ELSE sessions
    /\ session' = session
    /\ pc' = "idle"
    /\ UNCHANGED <<from_addresses, started>>

\* Harbor.stop from the line after `await self._api.close()` to the end.
StopTail ==
    /\ api' = NoneV
    /\ sessions' = IF IsOpen(session) THEN Close(sessions, session) ELSE sessions
    /\ session' = 0
    /\ pc' = "idle"
    /\ UNCHANGED <<from_addresses, started>>

Stop ==
    /\ pc = "idle"
    /\ IF ApiOpen
       THEN /\ sessions' = Close(sessions, api.session)
            /\ pc' = "stop_207"
            /\ UNCHANGED <<session, api, from_addresses, started>>
       ELSE StopTail
    /\ UNCHANGED <<cfg, last>>

StopResume ==
    /\ pc = "stop_207"
    /\ StopTail
    /\ UNCHANGED <<cfg, last>>

(* ---------------------------------------------------------------- handlers *)
\* One run of handler h: the web server supplies params, the network
\* answers the request (if one is made) with up.  The server dispatches the
\* next request once it has sent the pending reply.
Pending(h, params, up, r) ==
    [h |-> h, params |-> params, api |-> api, open |-> ApiOpen,
     up |-> IF r.issued > 0 THEN up ELSE NoUpstream,
     out |-> r.out, issued |-> r.issued, call |-> r.call]

adapter == <<cfg, session, api, sessions, from_addresses, started, pc>>

GetMarkets ==
    /\ last = NoRun
    /\ \E params \in NoParams, up \in Upstreams :
          last' = Pending("_get_markets", params, up,
                          _get_markets(api, ApiOpen, params, up))
    /\ UNCHANGED adapter

GetDepth ==
    /\ last = NoRun
    /\ \E params \in DepthParams, up \in Upstreams :
          last' = Pending("_get_depth", params, up,
                          _get_depth(api, ApiOpen, params, up))
    /\ UNCHANGED adapter

GetAccount ==
    /\ last = NoRun
    /\ \E params \in NoParams, up \in Upstreams :
          last' = Pending("_get_account", params, up,
                          _get_account(api, ApiOpen, params, up))
    /\ UNCHANGED adapter

CreateOrder ==
    /\ last = NoRun
    /\ \E params \in OrderParams, up \in Upstreams :
          last' = Pending("_create_order", params, up,
                          _create_order(api, ApiOpen, params, up))
    /\ UNCHANGED adapter

UpdateOrder ==
    /\ last = NoRun
    /\ \E params \in OrderParams, up \in Upstreams :
          last' = Pending("_update_order", params, up,
                          _update_order(api, ApiOpen, params, up))
    /\ UNCHANGED adapter

CancelOrder ==
    /\ last = NoRun
    /\ \E params \in OrderParams, up \in Upstreams :
          last' = Pending("_cancel_order", params, up,
                          _cancel_order(api, ApiOpen, params, up))
    /\ UNCHANGED adapter

GetOrder ==
    /\ last = NoRun
    /\ \E params \in OrderParams, up \in Upstreams :
          last' = Pending("_get_order", params, up,
                          _get_order(api, ApiOpen, params, up))
    /\ UNCHANGED adapter

GetOrders ==
    /\ last = NoRun
    /\ \E params \in OrderParams, up \in Upstreams :
          last' = Pending("_get_orders", params, up,
                          _get_orders(api, ApiOpen, params, up))
    /\ UNCHANGED adapter

Withdraw ==
    /\ last = NoRun
    /\ \E params \in WithdrawParams, up \in Upstreams :
          last' = Pending("_withdraw", params, up,
                          _withdraw(api, ApiOpen, params, up))
    /\ UNCHANGED adapter

GetWithdraw ==
    /\ last = NoRun
    /\ \E params \in WithdrawIdParams, up \in Upstreams :
          last' = Pending("_get_withdraw", params, up,
                          _get_withdraw(api, ApiOpen, params, up))
    /\ UNCHANGED adapter

GetInboundAddresses ==
    /\ last = NoRun
    /\ \E params \in NoParams, up \in Upstreams :
          last' = Pending("_get_inbound_addresses", params, up,
                          _get_inbound_addresses(api, ApiOpen, params, up))
    /\ UNCHANGED adapter

GetOutboundFees ==
    /\ last = NoRun
    /\ \E params \in NoParams, up \in Upstreams :
          last' = Pending("_get_outbound_fees", params, up,
                          _get_outbound_fees(api, ApiOpen, params, up))
    /\ UNCHANGED adapter

GetTxDetails ==
    /\ last = NoRun
    /\ \E params \in TxIdParams, up \in Upstreams :
          last' = Pending("_get_tx_details", params, up,
                          _get_tx_details(api, ApiOpen, params, up))
    /\ UNCHANGED adapter

GetDepositInstructions ==
    /\ last = NoRun
    /\ \E params \in NoParams, up \in Upstreams :
          last' = Pending("_get_deposit_instructions", params, up,
                          _get_deposit_instructions(api, ApiOpen, params, up,
                               from_addresses, cfg.websocket_url))
    /\ UNCHANGED adapter

\* One call of a DexCommon capability by the host framework; none of them
\* reads or writes the adapter's state or reaches the client.
Capability(h, out) ==
    /\ last = NoRun
    /\ last' = Pending(h, EmptyMap, NoUpstream, Run(out, 0, NoCall))
    /\ UNCHANGED adapter

Approve == Capability("_approve", _approve)
Transfer == Capability("_transfer", _transfer)
AmendTransaction == Capability("_amend_transaction", _amend_transaction)
CancelTransaction == Capability("_cancel_transaction", _cancel_transaction)
GetTransactionReceipt == Capability("get_transaction_receipt", get_transaction_receipt)
GetGasPrice == Capability("_get_gas_price", _get_gas_price)
GetAllOpenRequests == Capability("_get_all_open_requests", _get_all_open_requests)
CancelAll == Capability("_cancel_all", _cancel_all)

\* The web server sends the pending reply to the caller.
Respond ==
    /\ last # NoRun
    /\ last' = NoRun
    /\ UNCHANGED <<cfg, session, api, sessions, from_addresses, started, pc>>

Next ==
    \/ Start \/ StartResume \/ Stop \/ StopResume
    \/ GetMarkets \/ GetDepth \/ GetAccount
    \/ CreateOrder \/ UpdateOrder \/ CancelOrder \/ GetOrder \/ GetOrders
    \/ Withdraw \/ GetWithdraw
    \/ GetInboundAddresses \/ GetOutboundFees \/ GetTxDetails
    \/ GetDepositInstructions
    \/ Approve \/ Transfer \/ AmendTransaction \/ CancelTransaction
    \/ GetTransactionReceipt \/ GetGasPrice \/ GetAllOpenRequests \/ CancelAll
    \/ Respond

Spec == Init /\ [][Next]_vars

(* --------------------------------------------------------- URL composition *)
\* A second specification for the URLs the client composes: the adapter is
\* configured with a base and an api path that carry any number of
\* separators, started, and the client's _request / _request_xnode are
\* called with endpoint paths written with or without separators.
Slashes(n) == [i \in 1..n |-> "/"]
BaseCores == {<<>>, <<"http:", "/", "/", "h">>}
PrefixCores == {<<>>, <<"api", "/", "v1">>}
PathCores == {<<>>, <<"markets">>, <<"depth", "/", "BTCUSD">>}

Decorated(core) ==
    {Slashes(i) \o core \o Slashes(j) : i \in 0..MaxSlashes, j \in 0..MaxSlashes}
UrlBases == {core \o Slashes(j) : core \in BaseCores, j \in 0..MaxSlashes}
UrlPrefixes == UNION {Decorated(core) : core \in PrefixCores}
UrlPaths == UNION {Decorated(core) : core \in PathCores}

UrlConfigs ==
    {[rest_base |-> Str(b), rest_api_path |-> Str(p),
      xnode_base |-> Str(b), xnode_api_path |-> Str(p),
      websocket_url |-> NoneV, configured_api_key |-> NoneV,
      env_api_key |-> NoneV,
      configured_from_addresses |-> ("ETH" :> NoneV) @@ ("BTC" :> NoneV),
      env_eth_from_addr |-> NoneV, env_btc_from_addr |-> NoneV] :
        b \in UrlBases, p \in UrlPrefixes}

InitUrl ==
    /\ cfg \in UrlConfigs
    /\ session = 0
    /\ api = NoneV
    /\ sessions = <<>>
    /\ from_addresses = EmptyMap
    /\ started = FALSE
    /\ pc = "idle"
    /\ last = NoRun

EmptyJsonResponse == Response(200, <<"application/json", "; charset=utf-8">>, <<>>)

\* await api._request("GET", path) on the started adapter's client.
Request ==
    /\ last = NoRun
    /\ api # NoneV
    /\ \E path \in UrlPaths :
          last' = Pending("_request", "path" :> Str(path), EmptyJsonResponse,
                          Outcome(_request(api, ApiOpen, "GET", path, NoneV, NoneV,
                                           EmptyJsonResponse)))
    /\ UNCHANGED adapter

\* await api._request_xnode("GET", path) on the started adapter's client.
RequestXnode ==
    /\ last = NoRun
    /\ api # NoneV
    /\ \E path \in UrlPaths :
          last' = Pending("_request_xnode", "path" :> Str(path), EmptyJsonResponse,
                          Outcome(_request_xnode(api, ApiOpen, "GET", path, NoneV,
                                                 NoneV, EmptyJsonResponse)))
    /\ UNCHANGED adapter

NextUrl == Start \/ StartResume \/ Request \/ RequestXnode \/ Respond

SpecUrl == InitUrl /\ [][NextUrl]_vars

(* ------------------------------------------------------------------ claims *)
Handlers ==
    {"_get_markets", "_get_depth", "_get_account", "_create_order", "_update_order",
     "_cancel_order", "_get_order", "_get_orders", "_withdraw", "_get_withdraw",
     "_get_inbound_addresses", "_get_outbound_fees", "_get_tx_details",
     "_get_deposit_instructions"}
OrderHandlers == {"_create_order", "_update_order", "_cancel_order", "_get_order"}
XnodeHandlers == {"_get_inbound_addresses", "_get_outbound_fees", "_get_tx_details",
                  "_get_deposit_instructions"}
WithdrawKeys == {"destination", "asset", "amount", "gasAsset", "gasAmount"}

\* The input leaves out a required parameter of handler h.
Omits(h, params) ==
    CASE h = "_get_depth" -> "symbol" \notin DOMAIN params
      [] h \in OrderHandlers -> DOMAIN params = {}
      [] h = "_withdraw" -> ~(WithdrawKeys \subseteq DOMAIN params)
      [] h = "_get_withdraw" -> DOMAIN params \cap {"withdrawId", "withdraw_id"} = {}
      [] h = "_get_tx_details" -> DOMAIN params \cap {"txId", "tx_id"} = {}
      [] OTHER -> FALSE

NonEmptyAt(params, k) == k \in DOMAIN params /\ params[k] # Str(<<>>)

\* The input carries every required parameter of handler h, non-empty where
\* the handler wants a value.
Supplies(h, params) ==
    CASE h = "_get_depth" -> NonEmptyAt(params, "symbol")
      [] h \in OrderHandlers -> DOMAIN params # {}
      [] h = "_withdraw" -> WithdrawKeys \subseteq DOMAIN params
      [] h = "_get_withdraw" ->
             NonEmptyAt(params, "withdrawId") \/ NonEmptyAt(params, "withdraw_id")
      [] h = "_get_tx_details" -> NonEmptyAt(params, "txId") \/ NonEmptyAt(params, "tx_id")
      [] OTHER -> TRUE

NonNumericDepth(h, params) ==
    h = "_get_depth" /\ "depth" \in DOMAIN params /\ params["depth"] = Str(<<"deep">>)

\* body is {"error": {"message": ...}} with nothing else in it.
IsErrorMessageBody(body) ==
    /\ IsDict(body)
    /\ DOMAIN body.dict = {"error"}
    /\ IsDict(body.dict["error"])
    /\ DOMAIN body.dict["error"].dict = {"message"}
    /\ IsStr(body.dict["error"].dict["message"])

NotInitialisedReply ==
    Reply(503, Dict("error" :> Dict("message" :>
                        Str(<<"Harbor API client not initialised">>))))

\* C1: a handler with required parameters, given an input that omits one,
\* returns 400 with an {"error": {"message": ...}} body and puts no request
\* on the network, whatever state the adapter is in.
C1_MissingParamIs400 ==
    (last.h # "" /\ Omits(last.h, last.params)) =>
        /\ last.out.raised = ""
        /\ last.out.status = 400
        /\ IsErrorMessageBody(last.out.body)
        /\ last.issued = 0
        /\ last.call = NoCall

C1_Witness ==
    /\ last.h = "_withdraw"
    /\ Cardinality(DOMAIN last.params) = 4
    /\ last.api # NoneV
    /\ last.open
    /\ last.out.status = 400

\* C2 as stated: while the adapter is Stopped every endpoint handler (those
\* of _register_endpoints), for every input, returns 503 "not initialised"
\* and makes no upstream call.
C2_StoppedAlways503 ==
    (last.h \in Handlers /\ last.api = NoneV) =>
        /\ last.out = NotInitialisedReply
        /\ last.issued = 0

\* C2 amended: while the adapter is Stopped no endpoint handler makes an
\* upstream call; a handler returns 503 "not initialised" for every input that
\* carries its required parameters, and 400 for an input that does not
\* (validation comes first); _get_depth given a symbol and a non-numeric
\* depth raises ValueError instead.
C2_StoppedNoCall ==
    (last.h \in Handlers /\ last.api = NoneV) =>
        /\ last.issued = 0
        /\ last.call = NoCall
        /\ IF ~Supplies(last.h, last.params)
           THEN last.out.raised = "" /\ last.out.status = 400
           ELSE IF NonNumericDepth(last.h, last.params)
           THEN last.out.raised = "ValueError"
           ELSE last.out = NotInitialisedReply

C2_Witness ==
    /\ last.h = "_withdraw"
    /\ last.api = NoneV
    /\ started
    /\ WithdrawKeys \subseteq DOMAIN last.params
    /\ last.out = NotInitialisedReply

\* C3: every run of an endpoint handler ends by returning a (status, body)
\* pair; no exception leaves a handler.
C3_NoExceptionEscapes ==
    last.h \in Handlers => last.out.raised = ""

\* The payload the claim expects for an upstream body: the parsed body under
\* a JSON content type (an empty body being {}), else the raw text.
ParsedOrRaw(up) ==
    IF HasJsonContentType(up.ctype)
    THEN IF up.body = <<>> THEN Dict(EmptyMap)
         ELSE IF up.body = <<"{", "message", ":", "boom", "}">>
         THEN Dict("message" :> Str(<<"boom">>))
         ELSE IF up.body = <<"[", "]">> THEN ListV(<<>>)
         ELSE IF up.body = <<"null">> THEN NoneV
         ELSE Str(up.body)
    ELSE Str(up.body)

\* C4: an upstream response with status >= 400, whatever its content type and
\* body, comes back from the bridge as (that status, error.to_response())
\* with the parsed-or-raw body as payload.
C4_UpstreamErrorRelayed ==
    (last.issued > 0 /\ last.up.kind = "response" /\ last.up.status >= 400) =>
        /\ last.out.raised = ""
        /\ last.out.status = last.up.status
        /\ last.out.body =
               to_response([message |-> <<"Harbor request failed with status ",
                                          ToString(last.up.status)>>,
                            payload |-> ParsedOrRaw(last.up)])

\* C5: a transport-level failure of the upstream call (connection refused,
\* timeout, DNS failure) makes the handler return 503 with a network-failure
\* message.
C5_TransportFailureIs503 ==
    (last.issued > 0 /\ last.up.kind = "transport") =>
        /\ last.out.raised = ""
        /\ last.out.status = 503
        /\ last.out.body =
               Dict("error" :> Dict("message" :> Str(<<"Network error: ", last.up.exc>>)))

\* C6: when no start or stop is in progress, _session and _api are both
\* None or both set (the client holding that very session); a completed stop
\* leaves both None, a completed start leaves both set, and a stop of a
\* stopped adapter changes nothing.
C6_SessionAndApiPaired ==
    /\ [](pc = "idle" =>
            /\ (session = 0) <=> (api = NoneV)
            /\ api # NoneV => api.session = session)
    /\ [][/\ ((Stop \/ StopResume) /\ pc' = "idle") => (session' = 0 /\ api' = NoneV)
          /\ ((Start \/ StartResume) /\ pc' = "idle") => (session' # 0 /\ api' # NoneV)
          /\ (Stop /\ session = 0 /\ api = NoneV) => UNCHANGED vars]_vars

C6_Witness ==
    /\ pc = "idle"
    /\ started
    /\ session = 0
    /\ api = NoneV
    /\ sessions = <<"closed", "closed">>

\* C7: when no start or stop is in progress, the only session that may still
\* be open is the one _session refers to (so at most one is open); every
\* session opened by an earlier start has been closed.
C7_AtMostOneOpenSession ==
    pc = "idle" =>
        \A i \in 1..Len(sessions) : sessions[i] = "open" => i = session

C7_Witness ==
    /\ pc = "idle"
    /\ Len(sessions) = 2
    /\ sessions[1] = "closed"
    /\ sessions[2] = "open"
    /\ session = 2

\* C8: with no xnode base configured, each secondary-base operation raises a
\* 500 "not configured" error without a network request, so a started
\* adapter's handler returns 500.
C8_XnodeNotConfiguredIs500 ==
    (/\ last.h \in XnodeHandlers
     /\ last.api # NoneV
     /\ cfg.xnode_base = NoneV
     /\ Supplies(last.h, last.params)) =>
        /\ last.out = Reply(500, Dict("error" :> Dict("message" :>
                                 Str(<<"xnode base URL is not configured">>))))
        /\ last.issued = 0
        /\ last.call = NoCall

C8_Witness ==
    /\ last.h = "_get_tx_details"
    /\ last.api # NoneV
    /\ cfg.xnode_base = NoneV
    /\ last.params = ("txId" :> Str(<<"t", "1">>))
    /\ last.out.status = 500

\* C9: an upstream response with status < 400 is normalised: a JSON content
\* type has the body parsed, an empty JSON body gives {}, a non-JSON body is
\* kept as raw text, and a result that is not an object is wrapped as
\* {"result": ...}; so whatever a client operation returns is a mapping.
C9_SuccessIsMapping ==
    (/\ last.h \in Handlers \ {"_get_deposit_instructions"}
     /\ last.issued > 0
     /\ last.up.kind = "response"
     /\ last.up.status < 400) =>
        /\ last.out.raised = ""
        /\ last.out.status = 200 => IsDict(last.out.body)
        /\ ~HasJsonContentType(last.up.ctype) =>
               last.out = Reply(200, Dict("result" :> Str(last.up.body)))
        /\ (HasJsonContentType(last.up.ctype) /\ last.up.body = <<>>) =>
               last.out = Reply(200, Dict(EmptyMap))
        /\ (HasJsonContentType(last.up.ctype)
            /\ last.up.body = <<"{", "message", ":", "boom", "}">>) =>
               last.out = Reply(200, Dict("message" :> Str(<<"boom">>)))
        /\ (HasJsonContentType(last.up.ctype) /\ last.up.body = <<"[", "]">>) =>
               last.out = Reply(200, Dict("result" :> ListV(<<>>)))
        /\ (HasJsonContentType(last.up.ctype) /\ last.up.body = <<"null">>) =>
               last.out = Reply(200, Dict("result" :> NoneV))

C9_Witness ==
    /\ last.h = "_get_account"
    /\ last.up.kind = "response"
    /\ last.up.status = 399
    /\ HasJsonContentType(last.up.ctype)
    /\ last.up.body = <<"[", "]">>
    /\ last.out.status = 200

\* C10: every request on the primary base carries X-API-KEY with the
\* client's key when it has one (the configured key when one is configured)
\* and no such header when it has none; no request on the xnode base carries
\* it; and the primary-base request is made with or without a key.
C10_ApiKeyOnPrimaryOnly ==
    /\ last.call # NoCall =>
          /\ last.call.base = (IF last.h \in XnodeHandlers THEN "xnode" ELSE "rest")
          /\ (last.call.base = "rest" /\ Truthy(last.api.api_key)) =>
                 /\ "X-API-KEY" \in DOMAIN last.call.headers
                 /\ last.call.headers["X-API-KEY"] = last.api.api_key
          /\ (last.call.base = "rest" /\ Truthy(cfg.configured_api_key)) =>
                 last.api.api_key = cfg.configured_api_key
          /\ (last.call.base = "rest" /\ ~Truthy(last.api.api_key)) =>
                 "X-API-KEY" \notin DOMAIN last.call.headers
          /\ last.call.base = "xnode" => "X-API-KEY" \notin DOMAIN last.call.headers
    /\ (/\ last.h \in Handlers \ XnodeHandlers
        /\ last.open
        /\ Supplies(last.h, last.params)
        /\ ~NonNumericDepth(last.h, last.params)) =>
          (last.issued = 1 /\ last.call # NoCall)

C10_Witness ==
    /\ last.call # NoCall
    /\ last.call.base = "rest"
    /\ cfg.configured_api_key = Str(<<"secret-key">>)
    /\ "X-API-KEY" \in DOMAIN last.call.headers
    /\ last.call.headers["X-API-KEY"] = Str(<<"secret-key">>)

\* C11 as stated: each unsupported capability (token approval, transfer,
\* transaction amendment and cancellation, gas-price lookup, receipt lookup)
\* fails explicitly with a "not supported" error when called, while "get all
\* open requests" and "cancel all" return (200, empty list).
UnsupportedCapabilities ==
    {"_approve", "_transfer", "_amend_transaction", "_cancel_transaction",
     "_get_gas_price", "get_transaction_receipt"}
BulkHandlers == {"_get_all_open_requests", "_cancel_all"}

SaysNotSupported(out) ==
    /\ out.raised = "NotImplementedError"
    /\ out.message[Len(out.message)]
           \in {" are not supported for Harbor integration",
                " is not supported for Harbor integration"}

C11_UnsupportedAllFail ==
    /\ last.h \in UnsupportedCapabilities => last.out.raised # ""
    /\ last.h \in BulkHandlers => last.out = Reply(200, ListV(<<>>))

\* C11 amended: token approval, transfer, transaction amendment and
\* transaction cancellation raise NotImplementedError "... not supported for
\* Harbor integration"; gas-price lookup and receipt lookup return None
\* without any failure; "get all open requests" returns (200, []) and
\* "cancel all" returns (200, {"result": []}); none of them reaches the
\* client.
C11_UnsupportedAsCoded ==
    /\ last.h \in {"_approve", "_transfer", "_amend_transaction",
                   "_cancel_transaction"} => SaysNotSupported(last.out)
    /\ last.h \in {"_get_gas_price", "get_transaction_receipt"} =>
           (last.out.raised = "" /\ last.out.value = NoneV)
    /\ last.h = "_get_all_open_requests" => last.out = Reply(200, ListV(<<>>))
    /\ last.h = "_cancel_all" =>
           last.out = Reply(200, Dict("result" :> ListV(<<>>)))
    /\ last.h \in UnsupportedCapabilities \cup BulkHandlers =>
           (last.issued = 0 /\ last.call = NoCall)

C11_Witness ==
    /\ last.h = "_approve"
    /\ last.out.raised = "NotImplementedError"
    /\ api # NoneV

\* The from-address table a started adapter holds: the configured address,
\* else the environment's, per asset.
ResolvedFromAddresses ==
    ("ETH" :> (IF cfg.configured_from_addresses["ETH"] \notin {NoneV, Str(<<>>)}
               THEN cfg.configured_from_addresses["ETH"] ELSE cfg.env_eth_from_addr))
    @@ ("BTC" :> (IF cfg.configured_from_addresses["BTC"] \notin {NoneV, Str(<<>>)}
                  THEN cfg.configured_from_addresses["BTC"] ELSE cfg.env_btc_from_addr))

WebsocketConfigured == cfg.websocket_url \notin {NoneV, Str(<<>>)}

\* C12: the deposit-instructions handler makes one inbound-addresses
\* sub-call (at most one request, a GET of inbound_addresses on the xnode
\* base); when the sub-call fails its (status, body) pair is returned as it
\* is, and when it succeeds the reply is 200 with "inbound" (the addresses),
\* "fromAddresses" (the non-empty entries of the from-address table only)
\* and "websocketUrl" exactly when a websocket URL is configured.
C12_DepositInstructions ==
    last.h = "_get_deposit_instructions" =>
        LET sub == _get_inbound_addresses(last.api, last.open, EmptyMap, last.up)
        IN  /\ last.out.raised = ""
            /\ last.issued <= 1
            /\ last.issued = sub.issued
            /\ last.call = sub.call
            /\ last.call # NoCall =>
                   /\ last.call.base = "xnode"
                   /\ last.call.method = "GET"
                   /\ last.call.url = <<"http:", "/", "/", "x", "/", "xnode", "/",
                                        "inbound_addresses">>
            /\ sub.out.status # 200 => last.out = sub.out
            /\ sub.out.status = 200 =>
                   /\ last.out.status = 200
                   /\ DOMAIN last.out.body.dict =
                          {"inbound", "fromAddresses"}
                          \cup (IF WebsocketConfigured THEN {"websocketUrl"} ELSE {})
                   /\ last.out.body.dict["inbound"] = sub.out.body
                   /\ WebsocketConfigured =>
                          last.out.body.dict["websocketUrl"] = cfg.websocket_url
                   /\ LET sent == last.out.body.dict["fromAddresses"].dict
                      IN  /\ DOMAIN sent =
                                 {k \in {"ETH", "BTC"} :
                                     ResolvedFromAddresses[k] \notin {NoneV, Str(<<>>)}}
                          /\ \A k \in DOMAIN sent : sent[k] = ResolvedFromAddresses[k]

C12_Witness ==
    /\ last.h = "_get_deposit_instructions"
    /\ last.out.status = 200
    /\ last.issued = 1
    /\ "websocketUrl" \in DOMAIN last.out.body.dict
    /\ DOMAIN last.out.body.dict["fromAddresses"].dict = {"ETH"}
    /\ last.out.body.dict["inbound"] = Dict("result" :> ListV(<<>>))

\* Two segments with one separator between them; an empty one adds nothing.
Glue(x, y) == IF x = <<>> THEN y ELSE IF y = <<>> THEN x ELSE x \o <<"/">> \o y

\* C13: the URL of every request is base, api-path prefix and endpoint path
\* with exactly one separator between the non-empty ones and none in front
\* of or behind them, however many separators the configured base carries
\* behind it and the prefix and the path carry in front and behind (base
\* "http://h", prefix "/api/v1", path "markets" or "/markets" give
\* "http://h/api/v1/markets").
C13_UrlComposition ==
    (last.h \in {"_request", "_request_xnode"} /\ last.call # NoCall) =>
        \A b \in BaseCores, p \in PrefixCores, q \in PathCores :
            (/\ cfg.rest_base.str \in {b \o Slashes(j) : j \in 0..MaxSlashes}
             /\ cfg.rest_api_path.str \in Decorated(p)
             /\ last.params["path"].str \in Decorated(q)) =>
                last.call.url = Glue(Glue(b, p), q)

C13_Witness ==
    /\ last.h = "_request"
    /\ cfg.rest_base = Str(<<"http:", "/", "/", "h">>)
    /\ cfg.rest_api_path = Str(<<"/", "api", "/", "v1">>)
    /\ last.params["path"] = Str(<<"markets">>)
    /\ last.call.url = <<"http:", "/", "/", "h", "/", "api", "/", "v1", "/", "markets">>

\* C14: under every interleaving of handlers with start and stop, a client
\* that is set holds an open session; a handler that finds a client finds its
\* session open, and no request is put on the network through a closed
\* session.
C14_ClientSessionOpen ==
    /\ api # NoneV => IsOpen(api.session)
    /\ (last.h \in Handlers /\ last.api # NoneV) => last.open
    /\ last.issued > 0 => last.open

====
